---- MODULE Spec2Model ----
(***************************************************************************)
(* OAuth 1.0a client: the credential exchange (request token, callback,    *)
(* access token), its token -> secret correlation table, the nonce         *)
(* generator, the signer and the request assembler.                        *)
(*                                                                         *)
(* Strings are sequences of one-character strings, so that the escaping    *)
(* and parsing done by the code is computed and not assumed.               *)
(***************************************************************************)
EXTENDS Integers, Sequences, FiniteSets, TLC

VARIABLES
    oauth1TokenSecretMap,   \* the process-wide token -> secret table
    currentCredentials,     \* stdOAuth1Client.currentCredentials, per client
    nonceCounter,           \* the process-wide nonce counter
    last,                   \* observation of the last completed handshake call
    nonceLock,              \* holder of nonceLock, or 0
    npc,                    \* newNonce: position of every thread
    nresult,                \* newNonce: local variable result of every thread
    issued,                 \* newNonce: the strings returned so far, in order
    wrapped,                \* newNonce: the counter has overflowed
    pc,                     \* concurrent handshakes: position of every thread
    loc,                    \* concurrent handshakes: locals of every thread
    fatal,                  \* the runtime stopped the process (concurrent map access)
    call,                   \* one function call: the function and its arguments
    ret                     \* one function call: what it returned

handshakeVars == <<oauth1TokenSecretMap, currentCredentials, last>>
nonceVars == <<nonceLock, npc, nresult, issued, wrapped>>
concVars == <<pc, loc, fatal>>
callVars == <<call, ret>>
vars == <<oauth1TokenSecretMap, currentCredentials, nonceCounter, last,
          nonceLock, npc, nresult, issued, wrapped, pc, loc, fatal, call, ret>>

-----------------------------------------------------------------------------
(* Characters and their byte values (printable ASCII, 32 .. 126).          *)

Ascii ==
    <<" ", "!", "#34", "#", "$", "%", "&", "'", "(", ")", "*", "+", ",", "-", ".", "/",
      "0", "1", "2", "3", "4", "5", "6", "7", "8", "9", ":", ";", "<", "=", ">", "?",
      "@", "A", "B", "C", "D", "E", "F", "G", "H", "I", "J", "K", "L", "M", "N", "O",
      "P", "Q", "R", "S", "T", "U", "V", "W", "X", "Y", "Z", "[", "#92", "]", "^", "_",
      "#96", "a", "b", "c", "d", "e", "f", "g", "h", "i", "j", "k", "l", "m", "n", "o",
      "p", "q", "r", "s", "t", "u", "v", "w", "x", "y", "z", "{", "|", "}", "~">>

\* the byte value of every character, computed once
AsciiCode == [c \in {Ascii[i] : i \in 1..Len(Ascii)} |-> 31 + (CHOOSE i \in 1..Len(Ascii) : Ascii[i] = c)]

Code(c) == AsciiCode[c]

\* a byte outside the printable range (and the characters a string
\* literal cannot hold, 34, 92 and 96) is kept as the string "#<value>"
CharOf(n) == IF n \in 32..126 THEN Ascii[n - 31] ELSE "#" \o ToString(n)

HexDigitsUpper == <<"0", "1", "2", "3", "4", "5", "6", "7", "8", "9", "A", "B", "C", "D", "E", "F">>
HexDigitsLower == <<"0", "1", "2", "3", "4", "5", "6", "7", "8", "9", "a", "b", "c", "d", "e", "f">>

ishex(c) == \E i \in 1..16 : HexDigitsUpper[i] = c \/ HexDigitsLower[i] = c

unhex(c) == (CHOOSE i \in 1..16 : HexDigitsUpper[i] = c \/ HexDigitsLower[i] = c) - 1

IsAlnum(c) == Code(c) \in 48..57 \/ Code(c) \in 65..90 \/ Code(c) \in 97..122

-----------------------------------------------------------------------------
(* Errors and credentials.                                                 *)

NoError == [kind |-> "nil", text |-> <<>>]
EscapeError == [kind |-> "EscapeError", text |-> <<>>]
SemicolonError == [kind |-> "InvalidSemicolon", text |-> <<>>]
TransportError == [kind |-> "Transport", text |-> <<>>]
BodyReadError == [kind |-> "BodyRead", text |-> <<>>]
errorsNew(text) == [kind |-> "errors.New", text |-> text]

NilToken == [isNil |-> TRUE, token |-> <<>>, secret |-> <<>>]
stdAuthToken(token, secret) == [isNil |-> FALSE, token |-> token, secret |-> secret]

-----------------------------------------------------------------------------
(* net/url: QueryUnescape, QueryEscape, ParseQuery, Values.Get.            *)

\* every '%' is followed by two hex digits
EscapesValid(s) ==
    \A i \in 1..Len(s) : s[i] = "%" => (i + 2 <= Len(s) /\ ishex(s[i + 1]) /\ ishex(s[i + 2]))

\* what the character at i of a string with valid escapes decodes to: the
\* byte of an escape, nothing for the two digits of an escape, ' ' for '+'
UnescapeAt(s, i) ==
    IF s[i] = "%" THEN <<CharOf(unhex(s[i + 1]) * 16 + unhex(s[i + 2]))>>
    ELSE IF (i >= 2 /\ s[i - 1] = "%") \/ (i >= 3 /\ s[i - 2] = "%") THEN <<>>
    ELSE IF s[i] = "+" THEN <<" ">>
    ELSE <<s[i]>>

RECURSIVE UnescapeRange(_, _, _)
UnescapeRange(s, lo, hi) ==
    IF lo > hi THEN <<>>
    ELSE IF lo = hi THEN UnescapeAt(s, lo)
    ELSE UnescapeRange(s, lo, (lo + hi) \div 2) \o UnescapeRange(s, ((lo + hi) \div 2) + 1, hi)

UnescapeChars(s) == UnescapeRange(s, 1, Len(s))

\* url.QueryUnescape: the value is "" when an escape is malformed
QueryUnescape(s) ==
    IF EscapesValid(s)
    THEN [s |-> UnescapeChars(s), err |-> NoError]
    ELSE [s |-> <<>>, err |-> EscapeError]

shouldEscape(c) == ~(IsAlnum(c) \/ c \in {"-", "_", ".", "~"})

\* '%' and the two upper-case hex digits of the byte
PercentEncoded(c) ==
    <<"%", HexDigitsUpper[(Code(c) \div 16) + 1], HexDigitsUpper[(Code(c) % 16) + 1]>>

QueryEscapeChar(c) ==
    IF c = " " THEN <<"+">> ELSE IF shouldEscape(c) THEN PercentEncoded(c) ELSE <<c>>

\* the escape of every character, computed once
QueryEscaped == [c \in DOMAIN AsciiCode |-> QueryEscapeChar(c)]

RECURSIVE QueryEscapeRange(_, _, _)
QueryEscapeRange(s, lo, hi) ==
    IF lo > hi THEN <<>>
    ELSE IF lo = hi THEN QueryEscaped[s[lo]]
    ELSE QueryEscapeRange(s, lo, (lo + hi) \div 2) \o QueryEscapeRange(s, ((lo + hi) \div 2) + 1, hi)

QueryEscape(s) == QueryEscapeRange(s, 1, Len(s))

oauthEncodeChar(c) == IF c \in {"!", "*", "'", "(", ")"} THEN PercentEncoded(c) ELSE <<c>>

RECURSIVE oauthEncodeRange(_, _, _)
oauthEncodeRange(s, lo, hi) ==
    IF lo > hi THEN <<>>
    ELSE IF lo = hi THEN oauthEncodeChar(s[lo])
    ELSE oauthEncodeRange(s, lo, (lo + hi) \div 2) \o oauthEncodeRange(s, ((lo + hi) \div 2) + 1, hi)

oauthEncodeChars(s) == oauthEncodeRange(s, 1, Len(s))

oauthEncode(text) == oauthEncodeChars(QueryEscape(text))

\* index of the first occurrence of c in s, or 0
IndexOf(s, c) ==
    IF \E i \in 1..Len(s) : s[i] = c
    THEN CHOOSE i \in 1..Len(s) : s[i] = c /\ \A j \in 1..(i - 1) : s[j] # c
    ELSE 0

\* strings.Cut(s, sep), sep one character found at index i (0: not found)
CutBeforeAt(s, i) == IF i = 0 THEN s ELSE SubSeq(s, 1, i - 1)
CutAfterAt(s, i) == IF i = 0 THEN <<>> ELSE SubSeq(s, i + 1, Len(s))
CutBefore(s, c) == CutBeforeAt(s, IndexOf(s, c))
CutAfter(s, c) == CutAfterAt(s, IndexOf(s, c))

\* url.ParseQuery: the pairs that decode, in order, and the error; a pair that
\* does not decode is skipped and the first such error is kept
RECURSIVE ParseQueryFrom(_, _, _)

\* one decoded key and value are added, or skipped with their error
ParseQueryPair(key, value, rest, pairs, err) ==
    IF key.err # NoError
    THEN ParseQueryFrom(rest, pairs, IF err = NoError THEN key.err ELSE err)
    ELSE IF value.err # NoError
    THEN ParseQueryFrom(rest, pairs, IF err = NoError THEN value.err ELSE err)
    ELSE ParseQueryFrom(rest, Append(pairs, <<key.s, value.s>>), err)

\* one segment between two '&'
ParseQuerySegment(seg, rest, pairs, err) ==
    IF IndexOf(seg, ";") # 0 THEN ParseQueryFrom(rest, pairs, SemicolonError)
    ELSE IF seg = <<>> THEN ParseQueryFrom(rest, pairs, err)
    ELSE ParseQueryPair(QueryUnescape(CutBefore(seg, "=")), QueryUnescape(CutAfter(seg, "=")),
                        rest, pairs, err)

ParseQueryFrom(query, pairs, err) ==
    IF query = <<>> THEN [m |-> pairs, err |-> err]
    ELSE ParseQuerySegment(CutBefore(query, "&"), CutAfter(query, "&"), pairs, err)

ParseQuery(query) == ParseQueryFrom(query, <<>>, NoError)

\* url.Values.Get: the first value of the key, "" when there is none
ValuesGet(m, key) ==
    IF \E i \in 1..Len(m) : m[i][1] = key
    THEN m[CHOOSE i \in 1..Len(m) : m[i][1] = key /\ \A j \in 1..(i - 1) : m[j][1] # key][2]
    ELSE <<>>

-----------------------------------------------------------------------------
(* strconv.FormatUint(n, 16) and the nonce generator.                      *)

NonceBits == 2
NonceModulus == 2 ^ NonceBits

RECURSIVE FormatUint16(_)
FormatUint16(n) ==
    IF n < 16 THEN <<HexDigitsLower[n + 1]>>
    ELSE FormatUint16(n \div 16) \o <<HexDigitsLower[(n % 16) + 1]>>

\* what rand.Reader may deliver when the counter is 0 (a failed read leaves 0)
SeedsFor(counter) == IF counter = 0 THEN 0..(NonceModulus - 1) ELSE {0}

\* the counter once seeded
Seeded(counter, rnd) == IF counter = 0 THEN rnd ELSE counter

\* the string returned for a seeded counter, and the counter left
NonceOf(seeded) ==
    [result |-> FormatUint16(seeded), counter |-> (seeded + 1) % NonceModulus]

\* newNonce run without interruption
newNonce(counter, rnd) == NonceOf(Seeded(counter, rnd))

-----------------------------------------------------------------------------
(* The clients (one per provider) and what the provider adapter supplies.  *)

Providers == {"A", "B"}
\* the client whose handshake calls are explored one at a time
Clients == {"A"}
ServiceId(p) == p
AuthorizationUrl(p) == IF p = "A" THEN <<"/", "a">> ELSE <<"/", "a", "?", "x">>

S_oauth_token == <<"o", "a", "u", "t", "h", "_", "t", "o", "k", "e", "n">>
S_oauth_token_secret == S_oauth_token \o <<"_", "s", "e", "c", "r", "e", "t">>
S_oauth_verifier == <<"o", "a", "u", "t", "h", "_", "v", "e", "r", "i", "f", "i", "e", "r">>

-----------------------------------------------------------------------------
(* The correlation table: nil, or a map token -> oauth1SecretInfo.         *)

NilMap == [isNil |-> TRUE, entries |-> {}]
makeMap == [isNil |-> FALSE, entries |-> {}]
oauth1SecretInfo(service, token, secret) == [service |-> service, token |-> token, secret |-> secret]

MapHas(m, token) == \E e \in m.entries : e.token = token
MapGet(m, token) == CHOOSE e \in m.entries : e.token = token
MapPut(m, info) ==
    [isNil |-> FALSE, entries |-> {e \in m.entries : e.token # info.token} \cup {info}]

\* the secret the table holds for a token, "" when it holds none
MapSecret(m, token) == IF MapHas(m, token) THEN MapGet(m, token).secret ELSE <<>>

-----------------------------------------------------------------------------
(* Token responses, callbacks and the inputs the model draws from.         *)

\* the credentials read from a parsed body
AuthTokenOf(parsed) ==
    [cred |-> stdAuthToken(ValuesGet(parsed.m, S_oauth_token),
                           ValuesGet(parsed.m, S_oauth_token_secret)),
     err |-> parsed.err]

defaultOAuth1ParseAuthToken(value) == AuthTokenOf(ParseQuery(value))

\* what one call of OAuth1MakeSyncRequest may deliver
FailedSend == [err |-> TransportError, hasResp |-> FALSE, body |-> <<>>, readErr |-> NoError]
Response(body, readErr) == [err |-> NoError, hasResp |-> TRUE, body |-> body, readErr |-> readErr]

\* a callback request: nil, or the raw query of its URL
NilRequest == [isNil |-> TRUE, RawQuery |-> <<>>]
CallbackRequest(rawQuery) == [isNil |-> FALSE, RawQuery |-> rawQuery]

FormBody(token, secret) ==
    S_oauth_token \o <<"=">> \o token \o <<"&">> \o S_oauth_token_secret \o <<"=">> \o secret

BadPair == <<"&", "x", "=", "%">>

Bodies ==
    {<<>>, <<"%">>, S_oauth_token \o <<"=", "a">>,
     FormBody(<<"a">>, <<"s">>), FormBody(<<"a", "%", "2", "B", "b">>, <<"t">>),
     FormBody(<<"a">>, <<"s">>) \o BadPair}

Responses ==
    {FailedSend} \cup {Response(b, NoError) : b \in Bodies}
    \cup {Response(b, BodyReadError) : b \in {<<>>, FormBody(<<"a">>, <<"s">>)}}

Callbacks ==
    {NilRequest,
     CallbackRequest(S_oauth_verifier \o <<"=", "v">>),
     CallbackRequest(S_oauth_token \o <<"=">>),
     CallbackRequest(S_oauth_token \o <<"=", "a">>),
     CallbackRequest(S_oauth_token \o <<"=", "a", "&">> \o S_oauth_verifier \o <<"=", "v">>),
     CallbackRequest(S_oauth_token \o <<"=", "a", "%", "2", "B", "b">>)}

\* the parses of the inputs, computed once
BodyParse == [b \in Bodies |-> defaultOAuth1ParseAuthToken(b)]
CallbackQuery == [req \in Callbacks |-> ParseQuery(req.RawQuery).m]

parseRequestTokenResult(p, value) ==
    IF value \in DOMAIN BodyParse THEN BodyParse[value] ELSE defaultOAuth1ParseAuthToken(value)
parseAccessTokenResult(p, value) ==
    IF value \in DOMAIN BodyParse THEN BodyParse[value] ELSE defaultOAuth1ParseAuthToken(value)

\* the test both exchange steps apply to parsed credentials
Usable(c) == ~c.isNil /\ Len(c.token) > 0 /\ Len(c.secret) > 0

\* the request handed to OAuth1MakeSyncRequest: the endpoint, the credentials
\* it is signed with, the additional parameters and the nonce drawn for it
SignedRequest(endpoint, credentials, additional_params, nonce) ==
    [endpoint |-> endpoint, credentials |-> credentials,
     additional_params |-> additional_params, nonce |-> nonce]

-----------------------------------------------------------------------------
(* The request-token step.                                                 *)

\* getAuthToken after the response has been read and parsed
getAuthTokenParsed(p, table, resp, parsed, nn) ==
    IF resp.err # NoError
    THEN [credentials |-> NilToken, err |-> resp.err, table |-> table,
          counter |-> nn.counter,
          sent |-> <<SignedRequest("request", NilToken, <<>>, nn.result)>>]
    ELSE IF Usable(parsed.cred)
    THEN [credentials |-> parsed.cred, err |-> parsed.err,
          table |-> MapPut(IF table.isNil THEN makeMap ELSE table,
                           oauth1SecretInfo(ServiceId(p), parsed.cred.token, parsed.cred.secret)),
          counter |-> nn.counter,
          sent |-> <<SignedRequest("request", NilToken, <<>>, nn.result)>>]
    ELSE [credentials |-> parsed.cred,
          err |-> IF parsed.err = NoError /\ Len(resp.body) > 0
                  THEN errorsNew(resp.body)
                  ELSE parsed.err,
          table |-> table, counter |-> nn.counter,
          sent |-> <<SignedRequest("request", NilToken, <<>>, nn.result)>>]

getAuthToken(p, table, counter, resp, rnd) ==
    getAuthTokenParsed(p, table, resp, parseRequestTokenResult(p, resp.body),
                       newNonce(counter, rnd))

\* a variant that always appends with '?'
oauth1GenerateAuthorizationUrl_AlwaysQuestion(p, temporaryCredentials) ==
    AuthorizationUrl(p) \o <<"?">> \o S_oauth_token \o <<"=">> \o oauthEncode(temporaryCredentials.token)

oauth1GenerateAuthorizationUrl(p, temporaryCredentials) ==
    IF IndexOf(AuthorizationUrl(p), "?") # 0
    THEN AuthorizationUrl(p) \o <<"&">> \o S_oauth_token \o <<"=">> \o oauthEncode(temporaryCredentials.token)
    ELSE AuthorizationUrl(p) \o <<"?">> \o S_oauth_token \o <<"=">> \o oauthEncode(temporaryCredentials.token)

\* oauth1GenerateRequestTokenUrl once getAuthToken has returned g
RequestTokenUrlOf(p, cur, g) ==
    [granted |-> FALSE, installed |-> FALSE, err |-> g.err,
     url |-> IF g.credentials.isNil \/ g.err # NoError
             THEN <<>>
             ELSE oauth1GenerateAuthorizationUrl(p, g.credentials),
     cred |-> g.credentials, table |-> g.table, counter |-> g.counter,
     cur |-> cur, sent |-> g.sent]

\* the outcome of oauth1GenerateRequestTokenUrl: the url returned and the state left
RequestTokenUrlOutcome(p, table, counter, cur, resp, rnd) ==
    RequestTokenUrlOf(p, cur, getAuthToken(p, table, counter, resp, rnd))

-----------------------------------------------------------------------------
(* The access-token step.                                                  *)

\* a variant that attaches oauth_verifier whatever the verifier is
VerifierParams_Always(auth_verifier) == << <<S_oauth_verifier, auth_verifier>> >>

\* the oauth_verifier parameter is attached only when there is a verifier
VerifierParams(auth_verifier) ==
    IF Len(auth_verifier) > 0 THEN << <<S_oauth_verifier, auth_verifier>> >> ELSE <<>>

\* the secret the access-token request is signed with
AuthSecret(m, auth_token, credentials) ==
    IF Len(MapSecret(m, auth_token)) <= 0 /\ Len(credentials.secret) > 0
    THEN credentials.secret
    ELSE MapSecret(m, auth_token)

\* a variant that lets the parse error go before the body error
FirstError_ParseFirst(err, err2, err3) ==
    IF err = NoError THEN (IF err3 = NoError THEN err2 ELSE err3) ELSE err

\* the error oauth1RequestToken returns: transport, then body, then parse
FirstError(err, err2, err3) ==
    IF err = NoError THEN (IF err2 = NoError THEN err3 ELSE err2) ELSE err

\* the body read from the response, "" when there is no response
ResponseBody(resp) == IF resp.hasResp THEN resp.body ELSE <<>>

\* the error of reading the body, or the body itself when it is not empty and
\* holds no usable credentials
BodyError(resp, c) ==
    IF ~Usable(c) /\ (resp.hasResp => resp.readErr = NoError) /\ Len(ResponseBody(resp)) > 0
    THEN errorsNew(ResponseBody(resp))
    ELSE IF resp.hasResp THEN resp.readErr ELSE NoError

\* oauth1RequestToken after the unescaping, the response and its parse
RequestTokenParsed(p, m, credentials, auth_token, auth_verifier, resp, parsed, nn) ==
    [c |-> parsed.cred, body |-> ResponseBody(resp),
     err |-> FirstError(resp.err, BodyError(resp, parsed.cred), parsed.err),
     table |-> IF Usable(parsed.cred)
               THEN MapPut(m, oauth1SecretInfo(ServiceId(p), parsed.cred.token, parsed.cred.secret))
               ELSE m,
     counter |-> nn.counter,
     sent |-> <<SignedRequest("access",
                              stdAuthToken(auth_token, AuthSecret(m, auth_token, credentials)),
                              VerifierParams(auth_verifier), nn.result)>>]

oauth1RequestToken(p, table, counter, credentials, verifier, resp, rnd) ==
    RequestTokenParsed(p, IF table.isNil THEN makeMap ELSE table, credentials,
                       QueryUnescape(credentials.token).s, QueryUnescape(verifier).s, resp,
                       parseAccessTokenResult(p, ResponseBody(resp)), newNonce(counter, rnd))

\* req.URL.Query() and req.URL.Query().Get(key)
CallbackValues(req) ==
    IF req \in DOMAIN CallbackQuery THEN CallbackQuery[req] ELSE ParseQuery(req.RawQuery).m

CallbackGet(req, key) == ValuesGet(CallbackValues(req), key)

\* a variant that only refuses a nil request
CallbackRefused_NilOnly(req) == req.isNil

\* the callback is refused before anything is sent
CallbackRefused(req) == req.isNil \/ Len(CallbackGet(req, S_oauth_token)) <= 0

\* what a refused callback leaves: nothing sent, nothing changed
Refused(err, table, counter, cur) ==
    [granted |-> FALSE, installed |-> FALSE, err |-> err, url |-> <<>>, cred |-> NilToken,
     table |-> table, counter |-> counter, cur |-> cur, sent |-> <<>>]

\* oauth1RequestTokenGranted once oauth1RequestToken has returned r
GrantedOf(cur, r) ==
    [granted |-> ~(r.err # NoError \/ r.c.isNil),
     installed |-> ~(r.err # NoError \/ r.c.isNil),
     err |-> r.err, url |-> <<>>, cred |-> r.c,
     table |-> r.table, counter |-> r.counter,
     cur |-> IF r.err # NoError \/ r.c.isNil THEN cur ELSE r.c, sent |-> r.sent]

\* the outcome of oauth1RequestTokenGranted
RequestTokenGrantedOutcome(p, table, counter, cur, req, resp, rnd) ==
    IF CallbackRefused(req)
    THEN Refused(NoError, table, counter, cur)
    ELSE GrantedOf(cur, oauth1RequestToken(p, table, counter,
                                           stdAuthToken(CallbackGet(req, S_oauth_token), <<>>),
                                           CallbackGet(req, S_oauth_verifier), resp, rnd))

\* oauth1ExchangeRequestTokenForAccess once oauth1RequestToken has returned r
ExchangeOf(cur, r) ==
    IF r.err # NoError
    THEN [granted |-> FALSE, installed |-> FALSE, err |-> r.err, url |-> <<>>, cred |-> r.c,
          table |-> r.table, counter |-> r.counter, cur |-> cur, sent |-> r.sent]
    ELSE IF Usable(r.c)
    THEN [granted |-> FALSE, installed |-> TRUE, err |-> NoError, url |-> <<>>, cred |-> r.c,
          table |-> r.table, counter |-> r.counter, cur |-> r.c, sent |-> r.sent]
    ELSE [granted |-> FALSE, installed |-> FALSE,
          err |-> IF Len(r.body) > 0 THEN errorsNew(r.body) ELSE NoError,
          url |-> <<>>, cred |-> r.c,
          table |-> r.table, counter |-> r.counter, cur |-> cur, sent |-> r.sent]

\* oauth1ExchangeRequestTokenForAccess with the token and verifier of the callback
ExchangeWithToken(p, table, counter, cur, token, verifier, resp, rnd) ==
    IF Len(token) <= 0
    THEN Refused(errorsNew(<<"Expected oauth_token">>), table, counter, cur)
    ELSE ExchangeOf(cur, oauth1RequestToken(p, table, counter,
                                            stdAuthToken(token, MapSecret(table, token)),
                                            verifier, resp, rnd))

\* the outcome of oauth1ExchangeRequestTokenForAccess
ExchangeOutcome(p, table, counter, cur, req, resp, rnd) ==
    IF req.isNil
    THEN Refused(errorsNew(<<"Request cannot be nil">>), table, counter, cur)
    ELSE ExchangeWithToken(p, table, counter, cur, CallbackGet(req, S_oauth_token),
                           CallbackGet(req, S_oauth_verifier), resp, rnd)

-----------------------------------------------------------------------------
(* The handshake, one call at a time.                                      *)

\* no function call is being observed
NoArguments == [op |-> "none"]
NoReturn == [op |-> "none"]

NoCall ==
    [op |-> "none", p |-> "A", req |-> NilRequest, granted |-> FALSE, installed |-> FALSE,
     err |-> NoError, url |-> <<>>, cred |-> NilToken, sent |-> <<>>]

Init ==
    /\ oauth1TokenSecretMap = NilMap
    /\ currentCredentials = [p \in Providers |-> NilToken]
    /\ nonceCounter = 0
    /\ last = NoCall
    /\ nonceLock = 0
    /\ npc = <<>>
    /\ nresult = <<>>
    /\ issued = <<>>
    /\ wrapped = FALSE
    /\ pc = <<>>
    /\ loc = <<>>
    /\ fatal = FALSE
    /\ call = NoArguments
    /\ ret = NoReturn

\* the state and the observation a finished call leaves
Finish(op, p, req, r) ==
    /\ oauth1TokenSecretMap' = r.table
    /\ nonceCounter' = r.counter
    /\ currentCredentials' = [currentCredentials EXCEPT ![p] = r.cur]
    /\ last' = [op |-> op, p |-> p, req |-> req, granted |-> r.granted,
                installed |-> r.installed, err |-> r.err, url |-> r.url,
                cred |-> r.cred, sent |-> r.sent]
    /\ UNCHANGED <<nonceVars, concVars, callVars>>

oauth1GenerateRequestTokenUrl(p, resp, rnd) ==
    \E r \in {RequestTokenUrlOutcome(p, oauth1TokenSecretMap, nonceCounter,
                                      currentCredentials[p], resp, rnd)} :
       Finish("oauth1GenerateRequestTokenUrl", p, NilRequest, r)

oauth1RequestTokenGranted(p, req, resp, rnd) ==
    \E r \in {RequestTokenGrantedOutcome(p, oauth1TokenSecretMap, nonceCounter,
                                          currentCredentials[p], req, resp, rnd)} :
       Finish("oauth1RequestTokenGranted", p, req, r)

oauth1ExchangeRequestTokenForAccess(p, req, resp, rnd) ==
    \E r \in {ExchangeOutcome(p, oauth1TokenSecretMap, nonceCounter,
                               currentCredentials[p], req, resp, rnd)} :
       Finish("oauth1ExchangeRequestTokenForAccess", p, req, r)

Next ==
    \/ \E p \in Clients, resp \in Responses, rnd \in SeedsFor(nonceCounter) :
          oauth1GenerateRequestTokenUrl(p, resp, rnd)
    \/ \E p \in Clients, req \in Callbacks, resp \in Responses, rnd \in SeedsFor(nonceCounter) :
          oauth1RequestTokenGranted(p, req, resp, rnd)
    \/ \E p \in Clients, req \in Callbacks, resp \in Responses, rnd \in SeedsFor(nonceCounter) :
          oauth1ExchangeRequestTokenForAccess(p, req, resp, rnd)

Spec == Init /\ [][Next]_vars

-----------------------------------------------------------------------------
(* Properties of the handshake.                                            *)

Completions == {"oauth1RequestTokenGranted", "oauth1ExchangeRequestTokenForAccess"}

\* the entries of the table; a nil map and an empty map hold the same
TableContents(m) == m.entries

\* the callback has no oauth_token value that is not empty
LacksToken(req) ==
    \/ req.isNil
    \/ \A i \in 1..Len(CallbackValues(req)) :
          CallbackValues(req)[i][1] = S_oauth_token => CallbackValues(req)[i][2] = <<>>

\* the call observed failed: Granted returned false, Exchange returned an error
CompletionFailed(o) ==
    \/ o.op = "oauth1RequestTokenGranted" /\ ~o.granted
    \/ o.op = "oauth1ExchangeRequestTokenForAccess" /\ o.err # NoError

\* the call observed succeeded: Granted returned true, Exchange returned nil
CompletionSucceeded(o) ==
    \/ o.op = "oauth1RequestTokenGranted" /\ o.granted
    \/ o.op = "oauth1ExchangeRequestTokenForAccess" /\ o.err = NoError

\* C1: once getAuthToken has recorded (T, S), an access-token exchange whose
\* callback carries only oauth_token=T signs its request with token secret S.
C1_ExchangeSignsWithRecordedSecret ==
    [][(/\ last.op = "oauth1GenerateRequestTokenUrl"
        /\ Usable(last.cred)
        /\ oauth1SecretInfo(ServiceId(last.p), last.cred.token, last.cred.secret)
              \in oauth1TokenSecretMap.entries
        /\ last'.op \in Completions
        /\ ~last'.req.isNil
        /\ CallbackGet(last'.req, S_oauth_token) = last.cred.token)
       => (/\ Len(last'.sent) = 1
           /\ last'.sent[1].credentials.secret = last.cred.secret)]_vars

\* C2: credentials installed as current by a completion call always have a
\* non-empty token and a non-empty secret.
C2_InstalledCredentialsComplete ==
    (last.op \in Completions /\ last.installed) => Usable(currentCredentials[last.p])

\* C3: a nil callback, or one without a non-empty oauth_token, makes Granted
\* return false and Exchange return an error; nothing is sent and neither the
\* table nor the current credentials (nor the nonce counter) change.
C3_MissingTokenRefused ==
    [][(last'.op \in Completions /\ LacksToken(last'.req))
       => (/\ ~last'.granted
           /\ last'.op = "oauth1ExchangeRequestTokenForAccess" => last'.err # NoError
           /\ last'.sent = <<>>
           /\ oauth1TokenSecretMap' = oauth1TokenSecretMap
           /\ currentCredentials' = currentCredentials
           /\ nonceCounter' = nonceCounter)]_vars

\* C3 witness: Exchange refused a non-nil callback without a token while the
\* table already held an entry.
C3_Witness ==
    /\ last.op = "oauth1ExchangeRequestTokenForAccess"
    /\ ~last.req.isNil
    /\ LacksToken(last.req)
    /\ last.err # NoError
    /\ last.sent = <<>>
    /\ oauth1TokenSecretMap.entries # {}

\* C4: a failed access-token exchange leaves the current credentials and the
\* contents of the table as they were.
C4_FailedExchangeChangesNothing ==
    [][(last'.op \in Completions /\ CompletionFailed(last'))
       => (/\ currentCredentials' = currentCredentials
           /\ TableContents(oauth1TokenSecretMap') = TableContents(oauth1TokenSecretMap))]_vars

\* C7: after an exchange for temporary token T has succeeded and issued access
\* credentials under another token, the table no longer holds an entry for T.
C7_TemporaryEntryCleared ==
    [][(/\ last'.op \in Completions
        /\ CompletionSucceeded(last')
        /\ Usable(last'.cred)
        /\ ~last'.req.isNil
        /\ MapHas(oauth1TokenSecretMap, CallbackGet(last'.req, S_oauth_token))
        /\ last'.cred.token # CallbackGet(last'.req, S_oauth_token))
       => ~MapHas(oauth1TokenSecretMap', CallbackGet(last'.req, S_oauth_token))]_vars

\* C8: oauth1GenerateRequestTokenUrl returns a non-empty url only if the
\* request-token step yielded a non-empty token and a non-empty secret and
\* recorded them in the table.
C8_UrlOnlyForRecordedCredentials ==
    (last.op = "oauth1GenerateRequestTokenUrl" /\ Len(last.url) > 0)
    => (/\ Usable(last.cred)
        /\ oauth1SecretInfo(ServiceId(last.p), last.cred.token, last.cred.secret)
              \in oauth1TokenSecretMap.entries)

\* C9: oauth1ExchangeRequestTokenForAccess returns nil only if it has installed
\* the newly issued credentials, with non-empty token and secret, as current.
C9_NilOnlyWhenInstalled ==
    (last.op = "oauth1ExchangeRequestTokenForAccess" /\ last.err = NoError)
    => (/\ last.installed
        /\ Usable(last.cred)
        /\ currentCredentials[last.p] = last.cred)

\* C23: a completion call installs access credentials as current only when
\* the table already holds an entry for the token of its callback, as it does
\* from the request-token step that obtained that token on (no entry of the
\* table is ever removed).
C23_InstalledOnlyAfterRequestToken ==
    [][(last'.op \in Completions /\ last'.installed)
       => MapHas(oauth1TokenSecretMap, CallbackGet(last'.req, S_oauth_token))]_vars

\* the additional parameters of a request name the key
HasParam(params, key) == \E i \in 1..Len(params) : params[i][1] = key

\* C10: a callback with a non-empty oauth_token is not refused for lacking an
\* oauth_verifier: the access-token request is sent, and it carries an
\* oauth_verifier parameter only when the callback's verifier is non-empty.
C10_MissingVerifierTolerated ==
    (last.op \in Completions /\ ~last.req.isNil
       /\ Len(CallbackGet(last.req, S_oauth_token)) > 0)
    => (/\ Len(last.sent) = 1
        /\ last.sent[1].endpoint = "access"
        /\ HasParam(last.sent[1].additional_params, S_oauth_verifier)
              => Len(CallbackGet(last.req, S_oauth_verifier)) > 0)

\* C10 witness: a callback with a token and no verifier, whose access-token
\* request went out without an oauth_verifier parameter and was granted.
C10_Witness ==
    /\ last.op = "oauth1RequestTokenGranted"
    /\ ~last.req.isNil
    /\ Len(CallbackGet(last.req, S_oauth_token)) > 0
    /\ Len(CallbackGet(last.req, S_oauth_verifier)) = 0
    /\ Len(last.sent) = 1
    /\ ~HasParam(last.sent[1].additional_params, S_oauth_verifier)
    /\ last.granted

-----------------------------------------------------------------------------
(* newNonce, statement by statement, called from several threads.          *)

NumThreads == 2
MaxNonces == 4
Threads == 1..NumThreads

NonceInit ==
    /\ oauth1TokenSecretMap = NilMap
    /\ currentCredentials = [p \in Providers |-> NilToken]
    /\ nonceCounter = 0
    /\ last = NoCall
    /\ nonceLock = 0
    /\ npc = [t \in Threads |-> "idle"]
    /\ nresult = [t \in Threads |-> <<>>]
    /\ issued = <<>>
    /\ wrapped = FALSE
    /\ pc = <<>>
    /\ loc = <<>>
    /\ fatal = FALSE
    /\ call = NoArguments
    /\ ret = NoReturn

\* the calls of newNonce finished or under way
NonceCalls == Len(issued) + Cardinality({t \in Threads : npc[t] # "idle"})

\* a thread enters newNonce and waits for nonceLock
NonceCall(t) ==
    /\ npc[t] = "idle"
    /\ NonceCalls < MaxNonces
    /\ npc' = [npc EXCEPT ![t] = "lock"]
    /\ UNCHANGED <<nonceCounter, nonceLock, nresult, issued, wrapped, handshakeVars, concVars, callVars>>

\* a variant that takes the lock without waiting for it to be free
NonceLock_NoWait(t) ==
    /\ npc[t] = "lock"
    /\ nonceLock' = t
    /\ npc' = [npc EXCEPT ![t] = "seed"]
    /\ UNCHANGED <<nonceCounter, nresult, issued, wrapped, handshakeVars, concVars, callVars>>

\* nonceLock.Lock()
NonceLock(t) ==
    /\ npc[t] = "lock"
    /\ nonceLock = 0
    /\ nonceLock' = t
    /\ npc' = [npc EXCEPT ![t] = "seed"]
    /\ UNCHANGED <<nonceCounter, nresult, issued, wrapped, handshakeVars, concVars, callVars>>

\* if nonceCounter == 0 { binary.Read(rand.Reader, ..., &nonceCounter) }
NonceSeed(t, rnd) ==
    /\ npc[t] = "seed"
    /\ nonceCounter' = IF nonceCounter = 0 THEN rnd ELSE nonceCounter
    /\ npc' = [npc EXCEPT ![t] = "format"]
    /\ UNCHANGED <<nonceLock, nresult, issued, wrapped, handshakeVars, concVars, callVars>>

\* result := strconv.FormatUint(nonceCounter, 16)
NonceFormat(t) ==
    /\ npc[t] = "format"
    /\ nresult' = [nresult EXCEPT ![t] = FormatUint16(nonceCounter)]
    /\ npc' = [npc EXCEPT ![t] = "incr"]
    /\ UNCHANGED <<nonceCounter, nonceLock, issued, wrapped, handshakeVars, concVars, callVars>>

\* nonceCounter += 1
NonceIncrement(t) ==
    /\ npc[t] = "incr"
    /\ nonceCounter' = (nonceCounter + 1) % NonceModulus
    /\ wrapped' = (wrapped \/ nonceCounter + 1 = NonceModulus)
    /\ npc' = [npc EXCEPT ![t] = "return"]
    /\ UNCHANGED <<nonceLock, nresult, issued, handshakeVars, concVars, callVars>>

\* return result, and the deferred nonceLock.Unlock()
NonceReturn(t) ==
    /\ npc[t] = "return"
    /\ issued' = Append(issued, [thread |-> t, nonce |-> nresult[t]])
    /\ nonceLock' = 0
    /\ npc' = [npc EXCEPT ![t] = "idle"]
    /\ UNCHANGED <<nonceCounter, nresult, wrapped, handshakeVars, concVars, callVars>>

NonceNext ==
    \/ \E t \in Threads : NonceCall(t)
    \/ \E t \in Threads : NonceLock(t)
    \/ \E t \in Threads, rnd \in SeedsFor(nonceCounter) : NonceSeed(t, rnd)
    \/ \E t \in Threads : NonceFormat(t)
    \/ \E t \in Threads : NonceIncrement(t)
    \/ \E t \in Threads : NonceReturn(t)

NonceSpec == NonceInit /\ [][NonceNext]_vars

\* the statements of newNonce between Lock and Unlock
NonceCritical == {"seed", "format", "incr", "return"}

\* C6: the seeding, the read and the increment of the counter are done by one
\* thread at a time, and until the counter wraps around no two calls of
\* newNonce return the same string.
C6_NoncesDistinct ==
    /\ \A t1, t2 \in Threads :
          (npc[t1] \in NonceCritical /\ npc[t2] \in NonceCritical) => t1 = t2
    /\ ~wrapped => \A i, j \in 1..Len(issued) : issued[i].nonce = issued[j].nonce => i = j

\* C6 witness: two threads have each been handed a nonce, the counter has not
\* wrapped, and one thread is waiting for the lock another one holds.
C6_Witness ==
    /\ ~wrapped
    /\ \E i, j \in 1..Len(issued) : issued[i].thread # issued[j].thread
    /\ \E t1, t2 \in Threads : npc[t1] = "lock" /\ nonceLock = t2 /\ t1 # t2

\* the number a returned nonce is the hexadecimal form of
NonceValue(nonce) == CHOOSE n \in 0..(NonceModulus - 1) : FormatUint16(n) = nonce

\* C24: every call of newNonce after the first returns the value the call
\* before it returned plus one, modulo 2^NonceBits: the counter is seeded by
\* the first call only.
C24_CounterSeededOnce ==
    \A i \in 2..Len(issued) :
       issued[i].nonce = FormatUint16((NonceValue(issued[i - 1].nonce) + 1) % NonceModulus)

-----------------------------------------------------------------------------
(* getAuthToken and oauth1RequestToken, statement by statement, run by     *)
(* several threads on the one table.                                       *)

ConcResponses ==
    {FailedSend, Response(FormBody(<<"a">>, <<"s">>), NoError),
     Response(FormBody(<<"a", "%", "2", "B", "b">>, <<"t">>), NoError)}

ConcTokens == {<<"a">>, <<"a", "+", "b">>}

\* the client a thread serves: the threads run handshakes of different providers
ThreadClient(t) == IF t % 2 = 1 THEN "A" ELSE "B"

NoLocals == [p |-> "A", token |-> <<>>, secret |-> <<>>, c |-> NilToken]

ConcInit ==
    /\ oauth1TokenSecretMap = NilMap
    /\ currentCredentials = [p \in Providers |-> NilToken]
    /\ nonceCounter = 0
    /\ last = NoCall
    /\ nonceLock = 0
    /\ npc = <<>>
    /\ nresult = <<>>
    /\ issued = <<>>
    /\ wrapped = FALSE
    /\ pc = [t \in Threads |-> "idle"]
    /\ loc = [t \in Threads |-> NoLocals]
    /\ fatal = FALSE
    /\ call = NoArguments
    /\ ret = NoReturn

\* the statements that read or write the table
TableWrites == {"g_make", "g_store", "r_make", "r_store"}
TableReads == {"g_nilcheck", "r_nilcheck", "r_lookup"}
TableAccess == TableWrites \cup TableReads

\* the statements that touch the contents of the map
MapAccess == {"g_store", "r_lookup", "r_store"}

\* thread t is at a map access while another thread is at one, one of them a write
Racing(t) ==
    /\ pc[t] \in MapAccess
    /\ \E u \in Threads :
          u # t /\ pc[u] \in MapAccess /\ (pc[t] \in TableWrites \/ pc[u] \in TableWrites)

\* getAuthToken up to the test of the credentials: send, read, parse
ConcGetAuthTokenSend(t, resp, rnd) ==
    /\ ~fatal
    /\ pc[t] = "idle"
    /\ nonceCounter' = newNonce(nonceCounter, rnd).counter
    /\ LET credentials == parseRequestTokenResult(ThreadClient(t), resp.body).cred
       IN  IF resp.err = NoError /\ Usable(credentials)
           THEN /\ pc' = [pc EXCEPT ![t] = "g_nilcheck"]
                /\ loc' = [loc EXCEPT ![t] = [NoLocals EXCEPT !.p = ThreadClient(t), !.c = credentials]]
           ELSE UNCHANGED <<pc, loc>>
    /\ UNCHANGED <<oauth1TokenSecretMap, currentCredentials, last, nonceVars, callVars, fatal>>

\* if oauth1TokenSecretMap == nil
ConcNilCheck(t) ==
    /\ ~fatal
    /\ pc[t] \in {"g_nilcheck", "r_nilcheck"}
    /\ pc' = [pc EXCEPT ![t] =
                IF pc[t] = "g_nilcheck"
                THEN (IF oauth1TokenSecretMap.isNil THEN "g_make" ELSE "g_store")
                ELSE (IF oauth1TokenSecretMap.isNil THEN "r_make" ELSE "r_lookup")]
    /\ UNCHANGED <<oauth1TokenSecretMap, currentCredentials, nonceCounter, last, nonceVars, callVars, loc, fatal>>

\* oauth1TokenSecretMap = make(map[string]*oauth1SecretInfo)
ConcMake(t) ==
    /\ ~fatal
    /\ pc[t] \in {"g_make", "r_make"}
    /\ oauth1TokenSecretMap' = makeMap
    /\ pc' = [pc EXCEPT ![t] = IF pc[t] = "g_make" THEN "g_store" ELSE "r_lookup"]
    /\ UNCHANGED <<currentCredentials, nonceCounter, last, nonceVars, callVars, loc, fatal>>

\* oauth1TokenSecretMap[c.Token()] = &oauth1SecretInfo{...}, and return
ConcStore(t) ==
    /\ ~fatal
    /\ pc[t] \in {"g_store", "r_store"}
    /\ oauth1TokenSecretMap' =
          MapPut(oauth1TokenSecretMap,
                 oauth1SecretInfo(ServiceId(loc[t].p), loc[t].c.token, loc[t].c.secret))
    /\ pc' = [pc EXCEPT ![t] = "idle"]
    /\ loc' = [loc EXCEPT ![t] = NoLocals]
    /\ UNCHANGED <<currentCredentials, nonceCounter, last, nonceVars, callVars, fatal>>

\* oauth1RequestToken is entered with the token of a callback
ConcRequestTokenEnter(t, token) ==
    /\ ~fatal
    /\ pc[t] = "idle"
    /\ pc' = [pc EXCEPT ![t] = "r_nilcheck"]
    /\ loc' = [loc EXCEPT ![t] = [NoLocals EXCEPT !.p = ThreadClient(t), !.token = QueryUnescape(token).s]]
    /\ UNCHANGED <<oauth1TokenSecretMap, currentCredentials, nonceCounter, last, nonceVars, callVars, fatal>>

\* auth_secret_info, _ := oauth1TokenSecretMap[auth_token]
ConcLookup(t) ==
    /\ ~fatal
    /\ pc[t] = "r_lookup"
    /\ loc' = [loc EXCEPT ![t].secret = MapSecret(oauth1TokenSecretMap, loc[t].token)]
    /\ pc' = [pc EXCEPT ![t] = "r_send"]
    /\ UNCHANGED <<oauth1TokenSecretMap, currentCredentials, nonceCounter, last, nonceVars, callVars, fatal>>

\* the access-token request is sent and its response parsed
ConcRequestTokenSend(t, resp, rnd) ==
    /\ ~fatal
    /\ pc[t] = "r_send"
    /\ nonceCounter' = newNonce(nonceCounter, rnd).counter
    /\ LET c == parseAccessTokenResult(loc[t].p, IF resp.hasResp THEN resp.body ELSE <<>>).cred
       IN  IF Usable(c)
           THEN /\ pc' = [pc EXCEPT ![t] = "r_store"]
                /\ loc' = [loc EXCEPT ![t].c = c]
           ELSE /\ pc' = [pc EXCEPT ![t] = "idle"]
                /\ loc' = [loc EXCEPT ![t] = NoLocals]
    /\ UNCHANGED <<oauth1TokenSecretMap, currentCredentials, last, nonceVars, callVars, fatal>>

\* the runtime finds two threads in the map at once and stops the process
ConcFatal(t) ==
    /\ ~fatal
    /\ Racing(t)
    /\ fatal' = TRUE
    /\ UNCHANGED <<oauth1TokenSecretMap, currentCredentials, nonceCounter, last, nonceVars, callVars, pc, loc>>

ConcNext ==
    \/ \E t \in Threads, resp \in ConcResponses, rnd \in SeedsFor(nonceCounter) :
          ConcGetAuthTokenSend(t, resp, rnd)
    \/ \E t \in Threads : ConcNilCheck(t)
    \/ \E t \in Threads : ConcMake(t)
    \/ \E t \in Threads : ConcStore(t)
    \/ \E t \in Threads, token \in ConcTokens : ConcRequestTokenEnter(t, token)
    \/ \E t \in Threads : ConcLookup(t)
    \/ \E t \in Threads, resp \in ConcResponses, rnd \in SeedsFor(nonceCounter) :
          ConcRequestTokenSend(t, resp, rnd)
    \/ \E t \in Threads : ConcFatal(t)

ConcSpec == ConcInit /\ [][ConcNext]_vars

\* C5: the table is read and written under a lock: no two threads are at a
\* statement that reads or writes the table at the same time.
C5_TableAccessExclusive ==
    \A t1, t2 \in Threads :
       (pc[t1] \in TableAccess /\ pc[t2] \in TableAccess) => t1 = t2

-----------------------------------------------------------------------------
(* url.Values as used by the signer: the (key, value) pairs in the order   *)
(* they were added; the values of one key keep that order.                 *)

S_realm == <<"r", "e", "a", "l", "m">>
S_oauth_consumer_key == <<"o", "a", "u", "t", "h", "_", "c", "o", "n", "s", "u", "m", "e", "r", "_", "k", "e", "y">>
S_oauth_signature_method == <<"o", "a", "u", "t", "h", "_", "s", "i", "g", "n", "a", "t", "u", "r", "e", "_", "m", "e", "t", "h", "o", "d">>
S_HMAC_SHA1 == <<"H", "M", "A", "C", "-", "S", "H", "A", "1">>
S_oauth_timestamp == <<"o", "a", "u", "t", "h", "_", "t", "i", "m", "e", "s", "t", "a", "m", "p">>
S_oauth_nonce == <<"o", "a", "u", "t", "h", "_", "n", "o", "n", "c", "e">>
S_oauth_version == <<"o", "a", "u", "t", "h", "_", "v", "e", "r", "s", "i", "o", "n">>
S_1_0 == <<"1", ".", "0">>
S_oauth_callback == <<"o", "a", "u", "t", "h", "_", "c", "a", "l", "l", "b", "a", "c", "k">>
S_oauth_signature == <<"o", "a", "u", "t", "h", "_", "s", "i", "g", "n", "a", "t", "u", "r", "e">>
GET == <<"G", "E", "T">>

ValuesDel(m, key) == SelectSeq(m, LAMBDA kv : kv[1] # key)
ValuesAdd(m, key, value) == Append(m, <<key, value>>)
ValuesSet(m, key, value) == Append(ValuesDel(m, key), <<key, value>>)

\* m[key]: the values of the key, in the order they were added
ValuesOfPairs(pairs) == [i \in 1..Len(pairs) |-> pairs[i][2]]
ValuesOf(m, key) == ValuesOfPairs(SelectSeq(m, LAMBDA kv : kv[1] = key))

\* getKeys: the keys of the map
getKeys(m) == {m[i][1] : i \in 1..Len(m)}

\* the order of sort.Strings: byte by byte, a proper prefix first
RECURSIVE StringLess(_, _)
StringLess(a, b) ==
    IF b = <<>> THEN FALSE
    ELSE IF a = <<>> THEN TRUE
    ELSE IF Head(a) = Head(b) THEN StringLess(Tail(a), Tail(b))
    ELSE Code(Head(a)) < Code(Head(b))

LeastString(S) == CHOOSE k \in S : \A j \in S : j = k \/ StringLess(k, j)

RECURSIVE SortStrings(_)
SortStrings(S) ==
    IF S = {} THEN <<>> ELSE <<LeastString(S)>> \o SortStrings(S \ {LeastString(S)})

getSortedKeys(m) == SortStrings(getKeys(m))

\* strings.Join
RECURSIVE Join(_, _)
Join(arr, sep) ==
    IF arr = <<>> THEN <<>>
    ELSE IF Len(arr) = 1 THEN arr[1]
    ELSE arr[1] \o sep \o Join(Tail(arr), sep)

\* strings.TrimSpace, for the printable characters
RECURSIVE TrimLeft(_)
TrimLeft(s) == IF s # <<>> /\ Head(s) = " " THEN TrimLeft(Tail(s)) ELSE s
RECURSIVE TrimRight(_)
TrimRight(s) == IF s # <<>> /\ s[Len(s)] = " " THEN TrimRight(SubSeq(s, 1, Len(s) - 1)) ELSE s
TrimSpace(s) == TrimRight(TrimLeft(s))

\* strconv.FormatInt(n, 10), n not negative
RECURSIVE FormatInt10(_)
FormatInt10(n) ==
    IF n < 10 THEN <<HexDigitsLower[n + 1]>>
    ELSE FormatInt10(n \div 10) \o <<HexDigitsLower[(n % 10) + 1]>>

\* url.Values.Encode: sorted by key, every key and value query-escaped
EncodeOfKey(key, values) ==
    [i \in 1..Len(values) |-> QueryEscape(key) \o <<"=">> \o QueryEscape(values[i])]
RECURSIVE EncodeKeys(_, _)
EncodeKeys(keys, m) ==
    IF keys = <<>> THEN <<>>
    ELSE EncodeOfKey(Head(keys), ValuesOf(m, Head(keys))) \o EncodeKeys(Tail(keys), m)
Encode(m) == Join(EncodeKeys(getSortedKeys(m), m), <<"&">>)

-----------------------------------------------------------------------------
(* The signer: oauth1PrepareRequest.                                       *)

\* a client: what the accessors of stdOAuth1Client return
stdOAuth1Client(realm, consumerKey, consumerSecret, callbackUrl) ==
    [realm |-> realm, consumerKey |-> consumerKey, consumerSecret |-> consumerSecret,
     callbackUrl |-> callbackUrl]
Realm(p) == p.realm
ConsumerKey(p) == p.consumerKey
ConsumerSecret(p) == p.consumerSecret
CallbackUrl(p) == p.callbackUrl

\* the method the base string starts with
MethodOrGET(method) == IF Len(method) <= 0 THEN GET ELSE method

\* theurl.Query(): the pairs of the uri's query that decode
UrlQuery(uri) == ParseQuery(CutAfter(uri, "?")).m

\* the timestamp and the nonce used: time.Now() for the zero time, newNonce()
\* for the empty nonce
TimestampOrNow(timestamp, now) == IF timestamp = 0 THEN now ELSE timestamp
NonceOrNew(nonce, nn) == IF Len(nonce) <= 0 THEN nn.result ELSE nonce
CounterAfter(nonce, counter, nn) == IF Len(nonce) <= 0 THEN nn.counter ELSE counter

RealmParams(p) == IF Len(Realm(p)) > 0 THEN ValuesSet(<<>>, S_realm, Realm(p)) ELSE <<>>

\* the protocol parameters set before the token
ProtocolParams(p, timestamp, nonce) ==
    ValuesSet(ValuesSet(ValuesSet(ValuesSet(ValuesSet(RealmParams(p),
        S_oauth_consumer_key, ConsumerKey(p)),
        S_oauth_signature_method, S_HMAC_SHA1),
        S_oauth_timestamp, FormatInt10(timestamp)),
        S_oauth_nonce, nonce),
        S_oauth_version, S_1_0)

\* oauth_token when the credentials carry a token, else oauth_callback when
\* the client has a callback url
TokenParams(params, p, credentials) ==
    IF ~credentials.isNil /\ Len(credentials.token) > 0
    THEN ValuesSet(params, S_oauth_token, credentials.token)
    ELSE IF Len(CallbackUrl(p)) > 0
    THEN ValuesSet(params, S_oauth_callback, CallbackUrl(p))
    ELSE params

\* every pair of the uri's query is added
QueryParams(params, query) == params \o query

\* every key of the additional parameters replaces the values the key had
AdditionalParams(params, additional_params) ==
    SelectSeq(params, LAMBDA kv : kv[1] \notin getKeys(additional_params)) \o additional_params

\* the parameters that are signed
CollectedParams(p, credentials, uri, additional_params, timestamp, nonce) ==
    AdditionalParams(QueryParams(TokenParams(ProtocolParams(p, timestamp, nonce), p, credentials),
                                 UrlQuery(uri)),
                     additional_params)

\* params_arr: for every key in sorted order, one "key=value" per value, in
\* the order the values have in the map
ParamsOfKey(key, values) ==
    [i \in 1..Len(values) |-> oauthEncode(key) \o <<"=">> \o oauthEncode(values[i])]
RECURSIVE ParamsArr(_, _)
ParamsArr(keys, params) ==
    IF keys = <<>> THEN <<>>
    ELSE ParamsOfKey(Head(keys), ValuesOf(params, Head(keys))) \o ParamsArr(Tail(keys), params)

\* the signature base string
Message(method, uri, params) ==
    Join(<<MethodOrGET(method),
           oauthEncode(TrimSpace(CutBefore(uri, "?"))),
           oauthEncode(Join(ParamsArr(getSortedKeys(params), params), <<"&">>))>>, <<"&">>)

\* the key of the HMAC
TokenSecret(credentials) ==
    IF ~credentials.isNil /\ Len(credentials.secret) > 0 THEN credentials.secret ELSE <<>>
SigningKey(p, credentials) == Join(<<ConsumerSecret(p), TokenSecret(credentials)>>, <<"&">>)

\* base64(HMAC-SHA1(key, message)) kept symbolic: a text that is the same
\* exactly when the key and the message are the same
Signature(key, message) == <<"H", "(">> \o key \o <<",">> \o message \o <<")">>

\* oauth1PrepareRequest once the parameters are collected
PreparedFrom(params, message, key, counter) ==
    [v |-> ValuesSet(params, S_oauth_signature, TrimSpace(Signature(key, message))),
     signed |-> params, message |-> message, key |-> key, counter |-> counter]

PreparedOf(p, credentials, method, uri, params, counter) ==
    PreparedFrom(params, Message(method, uri, params), SigningKey(p, credentials), counter)

\* oauth1PrepareRequest: the parameters returned (v), with the parameters that
\* were signed, the base string, the key and the nonce counter left
oauth1PrepareRequest(p, credentials, method, uri, additional_params, timestamp, nonce, now, counter, rnd) ==
    PreparedOf(p, credentials, method, uri,
               CollectedParams(p, credentials, uri, additional_params,
                               TimestampOrNow(timestamp, now),
                               NonceOrNew(nonce, newNonce(counter, rnd))),
               CounterAfter(nonce, counter, newNonce(counter, rnd)))

-----------------------------------------------------------------------------
(* The request assembler: oauth1GenerateRequest.                           *)

S_Authorization == <<"A", "u", "t", "h", "o", "r", "i", "z", "a", "t", "i", "o", "n">>

\* http.Header: nil, or its fields in the order they were set
NilHeader == [isNil |-> TRUE, fields |-> <<>>]
makeHeader == [isNil |-> FALSE, fields |-> <<>>]
HeaderSet(headers, name, value) ==
    [isNil |-> FALSE, fields |-> ValuesSet(headers.fields, name, value)]

\* the body handed to http.NewRequest: nil, or a buffer holding a text
NilBody == [isNil |-> TRUE, text |-> <<>>]
NewBufferString(text) == [isNil |-> FALSE, text |-> text]

\* splitUrl: the uri without its query, and the parameters of the query
\* overridden by the additional parameters
splitUrl(uri, additional_params) ==
    [uri |-> CutBefore(uri, "?"),
     params |-> AdditionalParams(UrlQuery(uri), additional_params)]

\* MakeUrl: the uri followed by the encoded parameters, if there are any
MakeUrl(uri, params) ==
    IF params = <<>> THEN uri
    ELSE IF IndexOf(uri, "?") # 0 THEN uri \o <<"&">> \o Encode(params)
    ELSE uri \o <<"?">> \o Encode(params)

\* the parameters protected mode reads into the header and deletes from v
HeaderNames ==
    <<S_oauth_nonce, S_oauth_timestamp, S_oauth_version, S_oauth_signature_method,
      S_oauth_consumer_key, S_oauth_token, S_oauth_signature>>
DeletedNames == {S_realm} \cup {HeaderNames[i] : i \in 1..Len(HeaderNames)}

\* the value of the Authorization header, field by field: the realm when it
\* is not empty, then the seven parameters, every value query-escaped
AuthorizationOf(v) ==
    (IF Len(ValuesGet(v, S_realm)) > 0
     THEN << <<S_realm, QueryEscape(ValuesGet(v, S_realm))>> >>
     ELSE <<>>)
    \o [i \in 1..Len(HeaderNames) |-> <<HeaderNames[i], QueryEscape(ValuesGet(v, HeaderNames[i]))>>]

\* v and the headers after the protected block
RemainingParams(protected, v) ==
    IF protected THEN SelectSeq(v, LAMBDA kv : kv[1] \notin DeletedNames) ELSE v
HeadersAfter(headers, protected, v) ==
    IF protected
    THEN HeaderSet(IF headers.isNil THEN makeHeader ELSE headers, S_Authorization, AuthorizationOf(v))
    ELSE headers

\* the method dispatch
FinalUri(method, uri, additional_params, protected, splitUri, v) ==
    IF method = GET
    THEN (IF protected THEN MakeUrl(uri, additional_params) ELSE MakeUrl(splitUri, v))
    ELSE uri
\* a variant that hands a body to every request
BodyReader_Always(method, v) == NewBufferString(Encode(v))

BodyReader(method, v) == IF method = GET THEN NilBody ELSE NewBufferString(Encode(v))

\* http.NewRequest for a well-formed method and url: an empty method is GET
NewRequest(method, finalUri, r) ==
    [Method |-> IF method = <<>> THEN GET ELSE method, URL |-> finalUri, Body |-> r]

\* oauth1GenerateRequest once the parameters are signed
GeneratedFrom(headers, method, uri, additional_params, protected, splitUri, prepared) ==
    [req |-> NewRequest(method,
                        FinalUri(method, uri, additional_params, protected, splitUri,
                                 RemainingParams(protected, prepared.v)),
                        BodyReader(method, RemainingParams(protected, prepared.v))),
     Header |-> HeadersAfter(headers, protected, prepared.v),
     err |-> NoError, prepared |-> prepared, counter |-> prepared.counter]

GeneratedSplit(p, credentials, headers, method, uri, additional_params, protected, split, now, counter, rnd) ==
    GeneratedFrom(headers, method, uri, additional_params, protected, split.uri,
                  oauth1PrepareRequest(p, credentials, method, uri, split.params, 0, <<>>,
                                       now, counter, rnd))

\* oauth1GenerateRequest: the request, its header, and what was signed
oauth1GenerateRequest(p, credentials, headers, method, uri, additional_params, protected, now, counter, rnd) ==
    GeneratedSplit(p, credentials, headers, method, uri, additional_params, protected,
                   splitUrl(uri, additional_params), now, counter, rnd)

\* strings.ToUpper
ToUpperChar(c) == IF Code(c) \in 97..122 THEN CharOf(Code(c) - 32) ELSE c
ToUpper(s) == [i \in 1..Len(s) |-> ToUpperChar(s[i])]

\* oauth1CreateAuthorizedRequest, for the current credentials of the client
\* and what its AuthorizedResourceProtected returns
oauth1CreateAuthorizedRequest(p, currentCreds, method, headers, uri, query, protected, now, counter, rnd) ==
    oauth1GenerateRequest(p, currentCreds, IF headers.isNil THEN makeHeader ELSE headers,
                          ToUpper(MethodOrGET(method)), uri, query, protected,
                          now, counter, rnd)

\* what the provider adapter returns for one of its endpoints: RequestUrlMethod,
\* RequestUrl and RequestUrlProtected, or AccessUrlMethod, AccessUrl and
\* AccessUrlProtected
Endpoint(method, uri, protected) == [method |-> method, url |-> uri, protected |-> protected]

\* the request getAuthToken has OAuth1MakeSyncRequest build
getAuthTokenRequest(p, endpoint, now, counter, rnd) ==
    oauth1GenerateRequest(p, NilToken, NilHeader, endpoint.method, endpoint.url, <<>>,
                          endpoint.protected, now, counter, rnd)

\* the request oauth1RequestToken has OAuth1MakeSyncRequest build
oauth1RequestTokenRequest(p, endpoint, m, credentials, verifier, now, counter, rnd) ==
    oauth1GenerateRequest(p,
                          stdAuthToken(QueryUnescape(credentials.token).s,
                                       AuthSecret(m, QueryUnescape(credentials.token).s, credentials)),
                          NilHeader, endpoint.method, endpoint.url,
                          VerifierParams(QueryUnescape(verifier).s),
                          endpoint.protected, now, counter, rnd)

-----------------------------------------------------------------------------
(* One call of one function, on arguments drawn from bounded sets.         *)

POST == <<"P", "O", "S", "T">>
S_a == <<"a">>

ClientConfigs ==
    {stdOAuth1Client(realm, <<"k">>, consumerSecret, callbackUrl) :
        realm \in {<<>>, <<"r">>},
        consumerSecret \in {<<"c">>, <<"c", "&">>},
        callbackUrl \in {<<>>, <<"/", "c">>}}
SignCredentials == {NilToken, stdAuthToken(<<"t">>, <<>>), stdAuthToken(<<"t">>, <<"s", "+">>)}
Methods == {GET, POST, <<>>, <<"g", "e", "t">>}
Uris == {<<"/", "r">>, <<"/", "r", "?", "b", "=", "2", "&", "a", "=", "0">>}
ParamLists ==
    {<<>>, << <<S_a, <<"1">>>> >>, << <<S_a, <<"2">>>>, <<S_a, <<"1">>>> >>,
     << <<S_oauth_verifier, <<"v">>>> >>}
HeaderSets == {NilHeader, HeaderSet(makeHeader, <<"X">>, <<"x">>)}
TemporaryTokens ==
    {<<>>, <<"a">>, <<"a", " ", "b">>, <<"a", "+", "b">>, <<"(", "!", ")">>,
     <<"a", "&", "b", "=", "c">>}
Tables == {NilMap, makeMap, MapPut(makeMap, oauth1SecretInfo("A", <<"a">>, <<"s">>))}
CallResponses ==
    Responses
    \cup {[err |-> TransportError, hasResp |-> TRUE, body |-> FormBody(<<"a">>, <<"s">>),
           readErr |-> NoError],
          Response(<<"%">>, BodyReadError)}

\* the clock reading of the call, and an explicit timestamp
Now == 7
Timestamps == {0, 12}

AuthorizationUrlCalls ==
    [op : {"oauth1GenerateAuthorizationUrl"}, p : Providers,
     temporaryCredentials : {stdAuthToken(t, <<>>) : t \in TemporaryTokens}]
PrepareCalls ==
    [op : {"oauth1PrepareRequest"}, p : ClientConfigs, credentials : SignCredentials,
     method : Methods \ {POST}, uri : Uris, additional_params : ParamLists,
     timestamp : Timestamps, nonce : {<<>>, <<"n">>}]
GenerateCalls ==
    [op : {"oauth1GenerateRequest", "oauth1CreateAuthorizedRequest"},
     p : {c \in ClientConfigs : ConsumerSecret(c) = <<"c">>},
     credentials : {c \in SignCredentials : c.isNil \/ c.secret # <<>>}, headers : HeaderSets,
     method : Methods, uri : Uris, additional_params : ParamLists \ {<< <<S_a, <<"1">>>> >>},
     protected : BOOLEAN]
GetAuthTokenCalls ==
    [op : {"getAuthToken"}, p : Providers, table : Tables, resp : CallResponses]
RequestTokenCalls ==
    [op : {"oauth1RequestToken"}, p : Providers, table : Tables,
     credentials : {stdAuthToken(<<"a">>, <<>>), stdAuthToken(<<"b">>, <<"u">>)},
     verifier : {<<>>, <<"v">>}, resp : CallResponses]

\* the texts handed to oauthEncode: every string of at most EncodeMaxLen
\* characters of the alphabet
EncodeAlphabet ==
    {"a", "Z", "0", "-", ".", "_", "~", " ", "+", "%", "!", "*", "'", "(", ")", "&", "="}
EncodeMaxLen == 2
EncodeTexts == UNION {[1..n -> EncodeAlphabet] : n \in 0..EncodeMaxLen}
OauthEncodeCalls == [op : {"oauthEncode"}, text : EncodeTexts]

\* the endpoints a provider adapter may configure, and the requests the two
\* exchange steps build for them
Endpoints == {Endpoint(method, uri, protected) : method \in Methods, uri \in Uris, protected \in BOOLEAN}
GetAuthTokenRequestCalls ==
    [op : {"getAuthTokenRequest"},
     p : {c \in ClientConfigs : ConsumerSecret(c) = <<"c">> /\ Realm(c) = <<>>},
     endpoint : Endpoints]
RequestTokenRequestCalls ==
    [op : {"oauth1RequestTokenRequest"},
     p : {c \in ClientConfigs : ConsumerSecret(c) = <<"c">> /\ Realm(c) = <<>> /\ CallbackUrl(c) = <<>>},
     endpoint : Endpoints, table : Tables \ {NilMap},
     credentials : {stdAuthToken(<<"a">>, <<>>)}, verifier : {<<>>, <<"v">>}]

\* the two completion variants, called on the same callback, table, current
\* credentials and response
CompletionCalls ==
    [op : {"completions"}, p : Clients, table : Tables,
     cur : {NilToken, stdAuthToken(<<"o">>, <<"p">>)}, req : Callbacks, resp : Responses]

CallInit ==
    /\ oauth1TokenSecretMap \in Tables
    /\ currentCredentials = [p \in Providers |-> NilToken]
    /\ nonceCounter = 1
    /\ last = NoCall
    /\ nonceLock = 0
    /\ npc = <<>>
    /\ nresult = <<>>
    /\ issued = <<>>
    /\ wrapped = FALSE
    /\ pc = <<>>
    /\ loc = <<>>
    /\ fatal = FALSE
    /\ \/ call \in AuthorizationUrlCalls /\ oauth1TokenSecretMap = NilMap
       \/ call \in {c \in PrepareCalls : c.timestamp = 0 <=> c.nonce = <<>>}
          /\ oauth1TokenSecretMap = NilMap
       \/ call \in GenerateCalls /\ oauth1TokenSecretMap = NilMap
       \/ call \in GetAuthTokenCalls /\ oauth1TokenSecretMap = call.table
       \/ call \in RequestTokenCalls /\ oauth1TokenSecretMap = call.table
       \/ call \in OauthEncodeCalls /\ oauth1TokenSecretMap = NilMap
       \/ call \in GetAuthTokenRequestCalls /\ oauth1TokenSecretMap = NilMap
       \/ call \in RequestTokenRequestCalls /\ oauth1TokenSecretMap = call.table
       \/ call \in CompletionCalls /\ oauth1TokenSecretMap = call.table
    /\ ret = NoReturn

\* a call returns: what it returned is observed, the counter and the table are left
Return(r, counter, table) ==
    /\ ret = NoReturn
    /\ ret' = r
    /\ nonceCounter' = counter
    /\ oauth1TokenSecretMap' = table
    /\ UNCHANGED <<currentCredentials, last, nonceVars, concVars, call>>

CallGenerateAuthorizationUrl ==
    /\ call.op = "oauth1GenerateAuthorizationUrl"
    /\ Return([op |-> call.op,
               url |-> oauth1GenerateAuthorizationUrl(call.p, call.temporaryCredentials)],
              nonceCounter, oauth1TokenSecretMap)

\* the same pairs added in the opposite order
Reverse(s) == [i \in 1..Len(s) |-> s[Len(s) + 1 - i]]

\* the same client without a realm
WithoutRealm(p) == stdOAuth1Client(<<>>, ConsumerKey(p), ConsumerSecret(p), CallbackUrl(p))

\* oauth1PrepareRequest is applied to the arguments, to the arguments with the
\* additional parameters added in the opposite order, and to the arguments
\* with a client that has no realm
CallPrepareRequest(rnd) ==
    /\ call.op = "oauth1PrepareRequest"
    /\ \E r \in {oauth1PrepareRequest(call.p, call.credentials, call.method, call.uri,
                                      call.additional_params, call.timestamp, call.nonce,
                                      Now, nonceCounter, rnd)} :
          Return([op |-> call.op, prepared |-> r,
                  reordered |-> oauth1PrepareRequest(call.p, call.credentials, call.method,
                                                     call.uri, Reverse(call.additional_params),
                                                     call.timestamp, call.nonce,
                                                     Now, nonceCounter, rnd),
                  norealm |-> oauth1PrepareRequest(WithoutRealm(call.p), call.credentials,
                                                   call.method, call.uri, call.additional_params,
                                                   call.timestamp, call.nonce,
                                                   Now, nonceCounter, rnd)],
                 r.counter, oauth1TokenSecretMap)

CallGenerateRequest(rnd) ==
    /\ call.op = "oauth1GenerateRequest"
    /\ \E r \in {oauth1GenerateRequest(call.p, call.credentials, call.headers, call.method,
                                       call.uri, call.additional_params, call.protected,
                                       Now, nonceCounter, rnd)} :
          Return([op |-> call.op, method |-> call.method, out |-> r],
                 r.counter, oauth1TokenSecretMap)

CallCreateAuthorizedRequest(rnd) ==
    /\ call.op = "oauth1CreateAuthorizedRequest"
    /\ \E r \in {oauth1CreateAuthorizedRequest(call.p, call.credentials, call.method,
                                               call.headers, call.uri, call.additional_params,
                                               call.protected, Now, nonceCounter, rnd)} :
          Return([op |-> call.op, method |-> ToUpper(MethodOrGET(call.method)), out |-> r],
                 r.counter, oauth1TokenSecretMap)

CallGetAuthToken(rnd) ==
    /\ call.op = "getAuthToken"
    /\ \E r \in {getAuthToken(call.p, oauth1TokenSecretMap, nonceCounter, call.resp, rnd)} :
          Return([op |-> call.op, out |-> r], r.counter, r.table)

CallRequestToken(rnd) ==
    /\ call.op = "oauth1RequestToken"
    /\ \E r \in {oauth1RequestToken(call.p, oauth1TokenSecretMap, nonceCounter,
                                    call.credentials, call.verifier, call.resp, rnd)} :
          Return([op |-> call.op, out |-> r], r.counter, r.table)

CallOauthEncode ==
    /\ call.op = "oauthEncode"
    /\ Return([op |-> call.op, out |-> oauthEncode(call.text)],
              nonceCounter, oauth1TokenSecretMap)

CallGetAuthTokenRequest(rnd) ==
    /\ call.op = "getAuthTokenRequest"
    /\ \E r \in {getAuthTokenRequest(call.p, call.endpoint, Now, nonceCounter, rnd)} :
          Return([op |-> call.op, out |-> r], r.counter, oauth1TokenSecretMap)

CallRequestTokenRequest(rnd) ==
    /\ call.op = "oauth1RequestTokenRequest"
    /\ \E r \in {oauth1RequestTokenRequest(call.p, call.endpoint, oauth1TokenSecretMap,
                                           call.credentials, call.verifier,
                                           Now, nonceCounter, rnd)} :
          Return([op |-> call.op, out |-> r], r.counter, oauth1TokenSecretMap)

\* oauth1RequestTokenGranted and oauth1ExchangeRequestTokenForAccess are each
\* applied to the arguments; the state left is the one the former leaves
CallCompletions(rnd) ==
    /\ call.op = "completions"
    /\ \E r \in {RequestTokenGrantedOutcome(call.p, oauth1TokenSecretMap, nonceCounter,
                                            call.cur, call.req, call.resp, rnd)} :
          Return([op |-> call.op, granted |-> r,
                  exchange |-> ExchangeOutcome(call.p, oauth1TokenSecretMap, nonceCounter,
                                               call.cur, call.req, call.resp, rnd)],
                 r.counter, r.table)

CallNext ==
    \/ CallGenerateAuthorizationUrl
    \/ \E rnd \in SeedsFor(nonceCounter) : CallCompletions(rnd)
    \/ CallOauthEncode
    \/ \E rnd \in SeedsFor(nonceCounter) : CallGetAuthTokenRequest(rnd)
    \/ \E rnd \in SeedsFor(nonceCounter) : CallRequestTokenRequest(rnd)
    \/ \E rnd \in SeedsFor(nonceCounter) : CallPrepareRequest(rnd)
    \/ \E rnd \in SeedsFor(nonceCounter) : CallGenerateRequest(rnd)
    \/ \E rnd \in SeedsFor(nonceCounter) : CallCreateAuthorizedRequest(rnd)
    \/ \E rnd \in SeedsFor(nonceCounter) : CallGetAuthToken(rnd)
    \/ \E rnd \in SeedsFor(nonceCounter) : CallRequestToken(rnd)

CallSpec == CallInit /\ [][CallNext]_vars

\* the separator and what follows it in an authorization url built on base
UrlSeparator(base, url) == url[Len(base) + 1]
UrlRest(base, url) == SubSeq(url, Len(base) + 2, Len(url))

\* C11: oauth1GenerateAuthorizationUrl returns the authorization endpoint
\* followed by "&oauth_token=" and the encoded token when the endpoint contains
\* a '?', and by "?oauth_token=" and the encoded token otherwise.
C11_AuthorizationUrlSeparator ==
    ret.op = "oauth1GenerateAuthorizationUrl"
    => (/\ Len(ret.url) > Len(AuthorizationUrl(call.p))
        /\ SubSeq(ret.url, 1, Len(AuthorizationUrl(call.p))) = AuthorizationUrl(call.p)
        /\ UrlSeparator(AuthorizationUrl(call.p), ret.url)
              = (IF \E i \in 1..Len(AuthorizationUrl(call.p)) : AuthorizationUrl(call.p)[i] = "?"
                 THEN "&" ELSE "?")
        /\ UrlRest(AuthorizationUrl(call.p), ret.url)
              = S_oauth_token \o <<"=">> \o oauthEncode(call.temporaryCredentials.token))

\* C11 witness: an endpoint that already has a query, and a token with
\* characters that are encoded.
C11_Witness ==
    /\ ret.op = "oauth1GenerateAuthorizationUrl"
    /\ \E i \in 1..Len(AuthorizationUrl(call.p)) : AuthorizationUrl(call.p)[i] = "?"
    /\ call.temporaryCredentials.token = <<"(", "!", ")">>
    /\ UrlSeparator(AuthorizationUrl(call.p), ret.url) = "&"

-----------------------------------------------------------------------------
(* Properties of the request assembler and the signer.                     *)

GenerateOps == {"oauth1GenerateRequest", "oauth1CreateAuthorizedRequest"}

\* the (name, value) pairs of a parameter list, of the query of a url, of a
\* form-encoded body and of the Authorization header
PairSet(m) == {m[i] : i \in 1..Len(m)}
UrlPairs(url) == PairSet(ParseQuery(CutAfter(url, "?")).m)
BodyPairs(body) == IF body.isNil THEN {} ELSE PairSet(ParseQuery(body.text).m)
AuthorizationPairs(headers) ==
    IF HasParam(headers.fields, S_Authorization)
    THEN {<<f[1], QueryUnescape(f[2]).s>> : f \in PairSet(ValuesGet(headers.fields, S_Authorization))}
    ELSE {}

\* the parameters the caller expects the request to carry: its own, and in
\* unprotected mode every parameter that was prepared
ExpectedPairs(c, out) ==
    PairSet(c.additional_params) \cup (IF c.protected THEN {} ELSE PairSet(out.prepared.v))

C13_OrderIndependentSignature ==
    ret.op = "oauth1PrepareRequest"
    => (/\ ret.reordered.message = ret.prepared.message
        /\ ValuesGet(ret.reordered.v, S_oauth_signature) = ValuesGet(ret.prepared.v, S_oauth_signature))

\* the parameters the outgoing request carries in its Authorization header,
\* its url and its body
CarriedPairs(out) ==
    AuthorizationPairs(out.Header) \cup UrlPairs(out.req.URL) \cup BodyPairs(out.req.Body)

\* C14: the parameters the outgoing request carries are exactly the signed
\* parameters and oauth_signature.
C14_CarriedIsSigned ==
    ret.op \in GenerateOps => CarriedPairs(ret.out) = PairSet(ret.out.prepared.v)

\* C19: the key of the HMAC is the encoded consumer secret, '&', and the
\* encoded token secret (empty when the credentials are nil or have none).
C19_SigningKeyEncoded ==
    ret.op = "oauth1PrepareRequest"
    => ret.prepared.key
          = oauthEncode(ConsumerSecret(call.p)) \o <<"&">>
            \o oauthEncode(IF call.credentials.isNil THEN <<>> ELSE call.credentials.secret)

\* C20: a realm that is not empty is among the parameters returned, and the
\* oauth_signature is the one of the same request of a client without realm.
C20_RealmNotSigned ==
    (ret.op = "oauth1PrepareRequest" /\ Len(Realm(call.p)) > 0)
    => (/\ <<S_realm, Realm(call.p)>> \in PairSet(ret.prepared.v)
        /\ ValuesGet(ret.prepared.v, S_oauth_signature) = ValuesGet(ret.norealm.v, S_oauth_signature))

\* a parameter of the protocol: realm, or a name that begins with oauth_
IsOAuthName(name) ==
    \/ name = S_realm
    \/ Len(name) >= 6 /\ SubSeq(name, 1, 6) = <<"o", "a", "u", "t", "h", "_">>

\* C21: in protected mode no parameter named realm or beginning with oauth_
\* is in the url query or the body of the request and every such parameter
\* that was prepared is in the Authorization header; in unprotected mode the
\* header fields are those of the caller and none is named Authorization.
C21_ProtocolParamsOnlyInHeader ==
    ret.op \in GenerateOps
    => IF call.protected
       THEN /\ \A kv \in UrlPairs(ret.out.req.URL) \cup BodyPairs(ret.out.req.Body) :
                  ~IsOAuthName(kv[1])
            /\ \A kv \in PairSet(ret.out.prepared.v) :
                  IsOAuthName(kv[1]) => kv \in AuthorizationPairs(ret.out.Header)
       ELSE /\ ret.out.Header.fields = call.headers.fields
            /\ ~HasParam(ret.out.Header.fields, S_Authorization)

-----------------------------------------------------------------------------
(* Properties of the errors of the two exchange steps.                     *)

\* the error of reading the body of the response of the call
ReadError(resp) == IF resp.hasResp THEN resp.readErr ELSE NoError

\* C16 as stated: oauth1RequestToken returns the transport error if there is
\* one, else the body-read error if there is one, else the parse error.
C16_FirstOfThreeErrors ==
    ret.op = "oauth1RequestToken"
    => ret.out.err
          = (IF call.resp.err # NoError THEN call.resp.err
             ELSE IF ReadError(call.resp) # NoError THEN ReadError(call.resp)
             ELSE defaultOAuth1ParseAuthToken(ret.out.body).err)

\* C16 amended: oauth1RequestToken returns the transport error if there is
\* one, else the body-read error if there is one, else an error whose text is
\* the body when the body is not empty and holds no usable token and secret,
\* else the parse error.
C16_FirstErrorWithBodyText ==
    ret.op = "oauth1RequestToken"
    => ret.out.err
          = (IF call.resp.err # NoError THEN call.resp.err
             ELSE IF ReadError(call.resp) # NoError THEN ReadError(call.resp)
             ELSE IF Len(ret.out.body) > 0 /\ ~Usable(defaultOAuth1ParseAuthToken(ret.out.body).cred)
             THEN errorsNew(ret.out.body)
             ELSE defaultOAuth1ParseAuthToken(ret.out.body).err)

\* C16 witness: the body does not parse and holds no credentials; the error
\* returned carries the body and not the parse error.
C16_Witness ==
    /\ ret.op = "oauth1RequestToken"
    /\ call.resp.err = NoError
    /\ ReadError(call.resp) = NoError
    /\ defaultOAuth1ParseAuthToken(ret.out.body).err # NoError
    /\ ret.out.err = errorsNew(ret.out.body)

\* C17: when the body of the request-token response cannot be read,
\* getAuthToken returns the body-read error and records nothing.
C17_BodyReadErrorReturned ==
    (ret.op = "getAuthToken" /\ call.resp.err = NoError /\ ReadError(call.resp) # NoError)
    => (/\ ret.out.err = ReadError(call.resp)
        /\ TableContents(ret.out.table) = TableContents(call.table))

\* C18: when the body of the request-token response is not empty and holds no
\* usable token and secret, getAuthToken returns an error whose text is the
\* body and records nothing.
C18_RawBodyIsTheError ==
    (ret.op = "getAuthToken" /\ call.resp.err = NoError /\ Len(call.resp.body) > 0
       /\ ~Usable(defaultOAuth1ParseAuthToken(call.resp.body).cred))
    => (/\ ret.out.err = errorsNew(call.resp.body)
        /\ TableContents(ret.out.table) = TableContents(call.table))

-----------------------------------------------------------------------------
(* The handshakes of two providers sharing the process-wide table.         *)

CrossResponses ==
    {FailedSend, Response(FormBody(<<"a">>, <<"s">>), NoError),
     Response(FormBody(<<"a", "%", "2", "B", "b">>, <<"t">>), NoError)}
CrossCallbacks ==
    {CallbackRequest(S_oauth_token \o <<"=", "a">>),
     CallbackRequest(S_oauth_token \o <<"=", "a", "&">> \o S_oauth_verifier \o <<"=", "v">>)}

CrossNext ==
    \/ \E p \in Providers, resp \in CrossResponses, rnd \in SeedsFor(nonceCounter) :
          oauth1GenerateRequestTokenUrl(p, resp, rnd)
    \/ \E p \in Providers, req \in CrossCallbacks, resp \in CrossResponses,
          rnd \in SeedsFor(nonceCounter) :
          oauth1RequestTokenGranted(p, req, resp, rnd)
    \/ \E p \in Providers, req \in CrossCallbacks, resp \in CrossResponses,
          rnd \in SeedsFor(nonceCounter) :
          oauth1ExchangeRequestTokenForAccess(p, req, resp, rnd)

CrossSpec == Init /\ [][CrossNext]_vars

\* C15: the secret one provider's request-token step has just recorded for a
\* token is not the secret with which another provider, presenting the same
\* token in its callback, signs its access-token request.
C15_SecretsKeptPerProvider ==
    [][(/\ last.op = "oauth1GenerateRequestTokenUrl"
        /\ Usable(last.cred)
        /\ last'.op \in Completions
        /\ ServiceId(last'.p) # ServiceId(last.p)
        /\ ~last'.req.isNil
        /\ CallbackGet(last'.req, S_oauth_token) = last.cred.token
        /\ Len(last'.sent) = 1)
       => last'.sent[1].credentials.secret # last.cred.secret]_vars

-----------------------------------------------------------------------------
(* Properties of oauthEncode.                                              *)

IsUnreserved(c) == IsAlnum(c) \/ c \in {"-", ".", "_", "~"}

\* the character itself when it is unreserved, else '%' and the two
\* upper-case hex digits of its code
PercentForm(c) ==
    IF IsUnreserved(c) THEN <<c>>
    ELSE <<"%", HexDigitsUpper[(Code(c) \div 16) + 1], HexDigitsUpper[(Code(c) % 16) + 1]>>

RECURSIVE PercentFormOf(_)
PercentFormOf(text) ==
    IF text = <<>> THEN <<>> ELSE PercentForm(Head(text)) \o PercentFormOf(Tail(text))

\* C22: oauthEncode leaves the unreserved characters unchanged and replaces
\* every other character, the space and ! * ' ( ) included, by '%' and two
\* upper-case hex digits; nothing else is in its output.
C22_OauthEncodePercentForm ==
    ret.op = "oauthEncode"
    => (/\ ret.out = PercentFormOf(call.text)
        /\ \A i \in 1..Len(ret.out) :
              IsUnreserved(ret.out[i]) \/ ret.out[i] = "%")

-----------------------------------------------------------------------------
(* Properties of the method a request is signed and sent with.             *)

SigningOps == {"getAuthTokenRequest", "oauth1RequestTokenRequest", "oauth1CreateAuthorizedRequest"}

\* the method and the uri the caller, or the adapter's endpoint, supplied
SuppliedMethod(c) == IF c.op = "oauth1CreateAuthorizedRequest" THEN c.method ELSE c.endpoint.method
SuppliedUri(c) == IF c.op = "oauth1CreateAuthorizedRequest" THEN c.uri ELSE c.endpoint.url

\* the upper-case method, '&', the encoded uri without its query, '&'
MessageStart(method, uri) ==
    ToUpper(MethodOrGET(method)) \o <<"&">> \o oauthEncode(CutBefore(uri, "?")) \o <<"&">>

\* C25: on every path that signs a request the base string starts with the
\* upper-case form of the method supplied and the uri without its query, and
\* the request has no body exactly when that upper-case method is GET.
C25_UpperCaseMethodSigned ==
    ret.op \in SigningOps
    => (/\ Len(ret.out.prepared.message) >= Len(MessageStart(SuppliedMethod(call), SuppliedUri(call)))
        /\ SubSeq(ret.out.prepared.message, 1,
                  Len(MessageStart(SuppliedMethod(call), SuppliedUri(call))))
              = MessageStart(SuppliedMethod(call), SuppliedUri(call))
        /\ ret.out.req.Body.isNil <=> ToUpper(MethodOrGET(SuppliedMethod(call))) = GET)

-----------------------------------------------------------------------------
(* Properties of the two completion variants.                              *)

\* C26: on the same callback, table and response oauth1RequestTokenGranted
\* returns true exactly when oauth1ExchangeRequestTokenForAccess returns nil,
\* and both leave the same current credentials and the same table.
C26_CompletionVariantsAgree ==
    ret.op = "completions"
    => (/\ ret.granted.granted <=> ret.exchange.err = NoError
        /\ ret.granted.cur = ret.exchange.cur
        /\ TableContents(ret.granted.table) = TableContents(ret.exchange.table))

====
